---------------------------- MODULE Spec2Model ----------------------------
(***************************************************************************)
(* A model of metrics.py of MatchSum: the module start-up (the ROUGE_PATH  *)
(* lookup), MarginRankingLoss, ValidMetric (the fast validation scorer)    *)
(* and MatchRougeMetric (the exact ROUGE evaluator).                       *)
(*                                                                         *)
(* Python values are kept as they are: list positions are 0-based (At),    *)
(* a str is a sequence of one-character strings, a float that is a        *)
(* quotient of integers is an exact fraction <<numerator, denominator>>.   *)
(* Each component has a specification of its own (SpecStartup, SpecLoss,   *)
(* SpecValid, SpecMatch); the variables of the other components do not     *)
(* change under it.                                                        *)
(***************************************************************************)
EXTENDS Integers, Sequences, FiniteSets, TLC

VARIABLES
    \* module start-up
    environ, module_state, stdout, exit_code,
    \* MarginRankingLoss.get_loss: the last call
    l_call,
    \* ValidMetric; train_info is the number of lines of train_info.txt
    data, top1_correct, top6_correct, top10_correct, ROUGE, Error, cur_idx,
    train_info, v_call, v_seen,
    \* MatchRougeMetric; tmp_dir is the set of paths of the temporary
    \* directory that exist, dec_path and ref_path map a file's number to
    \* its lines, now is the clock
    m_data, ext, m_cur_idx, start, now, dec_path, ref_path, rouge_txt,
    tmp_dir, m_call

startVars == <<environ, module_state, stdout, exit_code>>
lossVars  == <<l_call>>
validVars == <<data, top1_correct, top6_correct, top10_correct, ROUGE, Error,
               cur_idx, train_info, v_call, v_seen>>
matchVars == <<m_data, ext, m_cur_idx, start, now, dec_path, ref_path,
               rouge_txt, tmp_dir, m_call>>
vars == <<startVars, lossVars, validVars, matchVars>>

----------------------------------------------------------------------------
(* Bounds of the model. *)

\* the (padded) width of a score matrix
NumCols == 11
\* the most rows a batch given to ValidMetric.evaluate holds
MaxBatch == 2
\* the most lines train_info.txt receives in a run
MaxLog == 2

----------------------------------------------------------------------------
(* Python values. *)

None == "None"

\* seq[i] of a Python list
At(seq, i) == seq[i + 1]

Abs(x) == IF x < 0 THEN -x ELSE x

RECURSIVE GCD(_, _)
GCD(a, b) == IF b = 0 THEN a ELSE GCD(b, a % b)

\* the fraction n / d (d > 0) in lowest terms
Frac(n, d) == LET g == GCD(Abs(n), d) IN <<n \div g, d \div g>>

FracAdd(x, y) == Frac(x[1] * y[2] + y[1] * x[2], x[2] * y[2])

FracLeq(x, y) == x[1] * y[2] <= y[1] * x[2]

Zero == <<0, 1>>
One  == <<1, 1>>

\* sep.join(strs) for a list of str
RECURSIVE Join(_, _)
Join(strs, sep) ==
    IF Len(strs) = 0 THEN << >>
    ELSE IF Len(strs) = 1 THEN strs[1]
    ELSE strs[1] \o sep \o Join(Tail(strs), sep)

\* list.sort() of a list of int: ascending
RECURSIVE Insert(_, _)
Insert(x, sorted) ==
    IF sorted = << >> THEN <<x>>
    ELSE IF x <= Head(sorted) THEN <<x>> \o sorted
    ELSE <<Head(sorted)>> \o Insert(x, Tail(sorted))

RECURSIVE SortAsc(_)
SortAsc(seq) == IF seq = << >> THEN << >> ELSE Insert(Head(seq), SortAsc(Tail(seq)))

\* the scan for the maximum from column c on, best being the column of the
\* first maximal value so far
RECURSIVE ArgMaxFrom(_, _, _)
ArgMaxFrom(row, c, best) ==
    IF c >= Len(row) THEN best
    ELSE ArgMaxFrom(row, c + 1, IF At(row, c) > At(row, best) THEN c ELSE best)

\* torch.max(row, dim=0).indices: the (0-based) index of the first maximal value
ArgMax(row) == ArgMaxFrom(row, 1, 0)

\* torch.max(score, dim=1).indices: the index of the maximum of every row
MaxIndices(score) == [k \in 1..Len(score) |-> ArgMax(score[k])]

\* CountEq with >= for ==
CountGeq(indices, col) == Cardinality({k \in 1..Len(indices) : indices[k] >= col})

\* int(torch.sum(indices == col))
CountEq(indices, col) == Cardinality({k \in 1..Len(indices) : indices[k] = col})

\* CountLeq with < for <=
CountLess(indices, limit) == Cardinality({k \in 1..Len(indices) : indices[k] < limit})

\* int(torch.sum(indices <= limit))
CountLeq(indices, limit) == Cardinality({k \in 1..Len(indices) : indices[k] <= limit})

----------------------------------------------------------------------------
(* Inputs: score rows and examples. *)

\* a score row whose maximum is at column c: lower before it, lower after it
PeakRow(c) == [j \in 1..NumCols |-> IF j = c + 1 THEN 2 ELSE IF j > c + 1 THEN 1 ELSE 0]

\* a score row whose maximum is taken at columns c and d
TieRow(c, d) == [j \in 1..NumCols |-> IF j = c + 1 \/ j = d + 1 THEN 2 ELSE 0]

PeakCols == {0, 5, 6, 9, NumCols - 1}

ScoreRows == {PeakRow(c) : c \in PeakCols} \cup {TieRow(1, 6)}

\* the score matrices of b rows
ScoreBatches(b) == [1..b -> ScoreRows]

sA == <<"a">>
sB == <<"b">>
sAB == <<"a", " ", "b">>
sEmpty == << >>

\* An example: text, summary and the candidate index-sets. Some index-sets
\* are stored out of ascending order, one is empty, one selects an empty
\* sentence; the third example has an empty gold summary.
Example1 == [text |-> <<sA, sB, sEmpty>>, summary |-> <<sA, sB>>,
             indices |-> << <<1, 0>> >>]
Example2 == [text |-> <<sA, sB, sEmpty>>, summary |-> <<sAB>>,
             indices |-> << <<0, 1>>, << >>, <<2>>, <<0, 2>>, <<1>>, <<2, 2>> >>]
Example3 == [text |-> <<sB, sA, sAB>>, summary |-> << >>,
             indices |-> << <<0>>, <<1>>, <<2>>, <<0, 1>>, <<0, 2>>,
                            <<1, 2>>, <<1>>, <<2>>, <<0>>, <<2, 1, 0>> >>]

ValidData == <<Example1, Example2, Example3>>

\* what rouge.get_scores can answer for a pair of non-empty texts: the
\* F-measures of rouge-1, rouge-2 and rouge-l
GetScores == { <<One, Zero, Frac(1, 2)>>, <<One, One, One>> }

----------------------------------------------------------------------------
(* ValidMetric: the fast validation scorer. *)

\* fast_rouge without the test of lines 87-88: the scorer's answer is used
\* for an empty text too
fast_rougeNoShortCircuit(dec, ref, scores) ==
    LET total == FracAdd(FracAdd(scores[1], scores[2]), scores[3])
    IN  Frac(total[1], total[2] * 3)

\* ValidMetric.fast_rouge, with scores the answer of rouge.get_scores(dec, ref)
fast_rouge(dec, ref, scores) ==
    IF dec = << >> \/ ref = << >> THEN Zero
    ELSE LET total == FracAdd(FracAdd(scores[1], scores[2]), scores[3])
         IN  Frac(total[1], total[2] * 3)

\* the test of line 101: the predicted index is a padded column
PaddingSelected(max_idx, example) == max_idx >= Len(example.indices)

\* TallyError without line 102: the padded row is skipped, not counted
TallyErrorUncounted(st) == [st EXCEPT !.cur_idx = @ + 1]

\* TallyError without line 103: the cursor stays on the example
TallyErrorNoAdvance(st) == [st EXCEPT !.Error = @ + 1]

\* lines 102-104: count the error, advance the cursor, continue
TallyError(st) == [st EXCEPT !.Error = @ + 1, !.cur_idx = @ + 1]

\* lines 105-113: sort the selected index-set in place, decode, add the ROUGE
AddRouge(st, max_idx, scores) ==
    LET example == At(st.data, st.cur_idx)
        ext_idx == SortAsc(At(example.indices, max_idx))
        sorted  == [st.data EXCEPT ![st.cur_idx + 1].indices[max_idx + 1] = ext_idx]
        ref     == Join(example.summary, <<" ">>)
        dec     == Join([k \in 1..Len(ext_idx) |-> At(example.text, ext_idx[k])], <<" ">>)
    IN  [st EXCEPT !.data = sorted,
                   !.ROUGE = FracAdd(@, fast_rouge(dec, ref, scores)),
                   !.cur_idx = @ + 1]

\* the record of one turn of the loop, kept in rows: the accumulators
\* before (st) and after (after) the turn
RowRecorded(st, max_idx, after) ==
    [after EXCEPT !.rows = Append(@,
        [idx |-> st.cur_idx, max_idx |-> max_idx,
         Error_before |-> st.Error, Error_after |-> after.Error,
         ROUGE_before |-> st.ROUGE, ROUGE_after |-> after.ROUGE,
         cur_after |-> after.cur_idx])]

\* lines 101-113 for the predicted index max_idx
EvalIndex(st, max_idx, scores) ==
    RowRecorded(st, max_idx,
                IF PaddingSelected(max_idx, At(st.data, st.cur_idx))
                THEN TallyError(st)
                ELSE AddRouge(st, max_idx, scores))

\* the loop of lines 99-113 over rows k..batch_size; indices[k] is
\* torch.max(score[k], dim=0).indices
RECURSIVE EvalRows(_, _, _, _)
EvalRows(st, indices, answers, k) ==
    IF k > Len(indices) THEN st
    ELSE EvalRows(EvalIndex(st, indices[k], answers[k]), indices, answers, k + 1)

\* ValidMetric.evaluate(score); answers[k] is what rouge.get_scores answers
\* if it is called for row k
evaluate(score, answers) ==
    /\ \E indices \in {MaxIndices(score)} :
       \E st \in {EvalRows([data |-> data, ROUGE |-> ROUGE, Error |-> Error,
                            cur_idx |-> cur_idx, rows |-> << >>], indices, answers, 1)} :
           /\ top1_correct'  = top1_correct + CountEq(indices, 0)
           /\ top6_correct'  = top6_correct + CountLeq(indices, 5)
           /\ top10_correct' = top10_correct + CountLeq(indices, 9)
           /\ data' = st.data
           /\ ROUGE' = st.ROUGE
           /\ Error' = st.Error
           /\ cur_idx' = st.cur_idx
           /\ v_call' = [op |-> "evaluate", score |-> score, reset |-> None,
                         raised |-> None, result |-> None, rows |-> st.rows]
           /\ v_seen' = v_seen \o indices
    /\ UNCHANGED train_info

\* the report of lines 116-121
EvalResult ==
    [top1_accuracy  |-> Frac(top1_correct, cur_idx),
     top6_accuracy  |-> Frac(top6_correct, cur_idx),
     top10_accuracy |-> Frac(top10_correct, cur_idx),
     Error |-> Error,
     ROUGE |-> Frac(ROUGE[1], ROUGE[2] * cur_idx)]

\* ResetCounters without line 130: Error is kept
ResetCountersKeepError ==
    /\ top1_correct' = 0
    /\ top6_correct' = 0
    /\ top10_correct' = 0
    /\ ROUGE' = Zero
    /\ Error' = Error
    /\ cur_idx' = 0

\* ResetCounters without line 131: the cursor is kept
ResetCountersKeepCursor ==
    /\ top1_correct' = 0
    /\ top6_correct' = 0
    /\ top10_correct' = 0
    /\ ROUGE' = Zero
    /\ Error' = 0
    /\ cur_idx' = cur_idx

\* lines 126-131
ResetCounters ==
    /\ top1_correct' = 0
    /\ top6_correct' = 0
    /\ top10_correct' = 0
    /\ ROUGE' = Zero
    /\ Error' = 0
    /\ cur_idx' = 0

\* get_metric with the file opened for appending and the line written before
\* the divisions: a call that raises has written a line
get_metricLogFirst(reset) ==
    IF cur_idx = 0
    THEN /\ train_info < MaxLog
         /\ train_info' = train_info + 1
         /\ v_call' = [op |-> "get_metric", score |-> None, reset |-> reset,
                       raised |-> "ZeroDivisionError", result |-> None, rows |-> << >>]
         /\ UNCHANGED <<data, top1_correct, top6_correct, top10_correct, ROUGE,
                        Error, cur_idx, v_seen>>
    ELSE /\ train_info < MaxLog
         /\ train_info' = train_info + 1
         /\ v_call' = [op |-> "get_metric", score |-> None, reset |-> reset,
                       raised |-> None, result |-> EvalResult, rows |-> << >>]
         /\ IF reset
            THEN ResetCounters /\ v_seen' = << >>
            ELSE UNCHANGED <<top1_correct, top6_correct, top10_correct, ROUGE,
                             Error, cur_idx, v_seen>>
         /\ UNCHANGED data

\* ValidMetric.get_metric(reset)
get_metric(reset) ==
    IF cur_idx = 0
    THEN \* line 116 divides by zero
         /\ v_call' = [op |-> "get_metric", score |-> None, reset |-> reset,
                       raised |-> "ZeroDivisionError", result |-> None, rows |-> << >>]
         /\ UNCHANGED <<data, top1_correct, top6_correct, top10_correct, ROUGE,
                        Error, cur_idx, train_info, v_seen>>
    ELSE /\ train_info < MaxLog
         /\ train_info' = train_info + 1
         /\ v_call' = [op |-> "get_metric", score |-> None, reset |-> reset,
                       raised |-> None, result |-> EvalResult, rows |-> << >>]
         /\ IF reset
            THEN ResetCounters /\ v_seen' = << >>
            ELSE UNCHANGED <<top1_correct, top6_correct, top10_correct, ROUGE,
                             Error, cur_idx, v_seen>>
         /\ UNCHANGED data

\* ValidMetric.__init__
ValidInit ==
    /\ data = ValidData
    /\ top1_correct = 0
    /\ top6_correct = 0
    /\ top10_correct = 0
    /\ ROUGE = Zero
    /\ Error = 0
    /\ cur_idx = 0
    /\ train_info = 0
    /\ v_call = [op |-> "__init__", score |-> None, reset |-> None,
                 raised |-> None, result |-> None, rows |-> << >>]
    /\ v_seen = << >>

\* a call of evaluate. The rows of a pass are the examples of data, in
\* order: a batch never holds more rows than examples are left. answer is
\* what rouge.get_scores answers during the call.
Evaluate ==
    \E b \in 1..MaxBatch :
        /\ cur_idx + b <= Len(data)
        /\ \E score \in ScoreBatches(b) : \E answer \in GetScores :
               evaluate(score, [k \in 1..b |-> answer])

GetMetric == \E reset \in BOOLEAN : get_metric(reset)

----------------------------------------------------------------------------
(* Module start-up: lines 1-26. *)

Unset == "<unset>"

EnvNames == {"ROUGE_PATH", "HOME", "CUDA_VISIBLE_DEVICES"}

EnvValues == {"", "/opt/ROUGE-1.5.5", "0"}

\* the names lines 1-19 bind in the module's namespace
ModuleGlobals ==
    {"np", "json", "join", "sys", "torch", "logging", "tempfile", "sp",
     "timedelta", "time", "combinations", "Rouge155", "log", "Rouge",
     "LossBase", "MetricBase"}

\* the try body of line 23, os.environ["ROUGE_PATH"]: the name os is looked
\* up first, then the key
RougePathLookup ==
    IF "os" \notin ModuleGlobals THEN [raised |-> "NameError", value |-> None]
    ELSE IF environ["ROUGE_PATH"] = Unset THEN [raised |-> "KeyError", value |-> None]
    ELSE [raised |-> None, value |-> environ["ROUGE_PATH"]]

\* lines 22-26: only KeyError is handled; any other exception leaves the
\* import (the interpreter ends with a traceback and status 1)
ImportModule ==
    /\ module_state = "importing"
    /\ LET got == RougePathLookup
       IN  IF got.raised = "KeyError"
           THEN /\ stdout' = Append(stdout, "Please set the environment variable ROUGE_PATH")
                /\ module_state' = "SystemExit"
                /\ exit_code' = 1
           ELSE IF got.raised = None
           THEN /\ module_state' = "loaded"
                /\ UNCHANGED <<stdout, exit_code>>
           ELSE /\ module_state' = got.raised
                /\ exit_code' = 1
                /\ UNCHANGED stdout
    /\ UNCHANGED environ

StartInit ==
    /\ environ \in [EnvNames -> EnvValues \cup {Unset}]
    /\ module_state = "importing"
    /\ stdout = << >>
    /\ exit_code = None

----------------------------------------------------------------------------
(* MarginRankingLoss. *)

\* the most candidates (columns) of a score matrix given to get_loss
MaxCand == 3

LossBatchSizes == {1, 2}
LossScores == 0..2
LossSummaryScores == {0, 2}
LossMargins == {-1, 0, 1}

\* tensor.contiguous().view(-1) of a matrix: its rows one after the other
RECURSIVE Flatten(_)
Flatten(m) == IF m = << >> THEN << >> ELSE Head(m) \o Flatten(Tail(m))

\* m[:, lo:hi]
Columns(m, lo, hi) == [b \in 1..Len(m) |-> SubSeq(m[b], lo + 1, hi)]

RECURSIVE SumSeq(_)
SumSeq(xs) == IF xs = << >> THEN 0 ELSE Head(xs) + SumSeq(Tail(xs))

\* Hinge with the two scores taken the other way round
HingeSwapped(x1, x2, margin) ==
    IF -(x2 - x1) + margin > 0 THEN -(x2 - x1) + margin ELSE 0

\* one element of torch.nn.MarginRankingLoss with target 1:
\* max(0, -(x1 - x2) + margin)
Hinge(x1, x2, margin) ==
    IF -(x1 - x2) + margin > 0 THEN -(x1 - x2) + margin ELSE 0

\* torch.nn.MarginRankingLoss(margin)(pos, neg, ones), reduction 'mean'
loss_func(margin, pos, neg) ==
    Frac(SumSeq([k \in 1..Len(pos) |-> Hinge(pos[k], neg[k], margin)]), Len(pos))

\* InitialLoss with margin 1 for margin 0.0
InitialLossUnitMargin(score) == loss_func(1, Flatten(score), Flatten(score))

\* lines 41-43: the loss of score against itself with margin 0
InitialLoss(score) == loss_func(0, Flatten(score), Flatten(score))

\* lines 48-54: the term of rank distance i
CandidateLoss(score, margin, i) ==
    LET n == Len(score[1])
    IN  loss_func(margin * i, Flatten(Columns(score, 0, n - i)),
                              Flatten(Columns(score, i, n)))

\* lines 57-63: every candidate against the gold summary's score
GoldLoss(score, summary_score) ==
    LET n == Len(score[1])
        expanded == [b \in 1..Len(score) |-> [j \in 1..n |-> summary_score[b]]]
    IN  loss_func(0, Flatten(expanded), Flatten(score))

RECURSIVE FracSum(_)
FracSum(xs) == IF xs = << >> THEN Zero ELSE FracAdd(Head(xs), FracSum(Tail(xs)))

\* MarginRankingLoss.get_loss(score, summary_score) with self.margin = margin
get_loss(margin, score, summary_score) ==
    LET n == Len(score[1])
        terms == [i \in 1..(n - 1) |-> CandidateLoss(score, margin, i)]
    IN  l_call' = [op |-> "get_loss", margin |-> margin, score |-> score,
                   summary_score |-> summary_score,
                   initial |-> InitialLoss(score),
                   terms |-> terms,
                   gold |-> GoldLoss(score, summary_score),
                   TotalLoss |-> FracAdd(FracAdd(InitialLoss(score), FracSum(terms)),
                                         GoldLoss(score, summary_score))]

\* no call of get_loss is under way
LossInit ==
    l_call = [op |-> "__init__", margin |-> 0, score |-> << >>, summary_score |-> << >>,
              initial |-> Zero, terms |-> << >>, gold |-> Zero, TotalLoss |-> Zero]

\* a call of get_loss is about to be made with these arguments
LossInputs ==
    \E margin \in LossMargins : \E b \in LossBatchSizes : \E n \in 1..MaxCand :
    \E score \in [1..b -> [1..n -> LossScores]] : \E summary_score \in [1..b -> LossSummaryScores] :
        l_call = [op |-> "call", margin |-> margin, score |-> score,
                  summary_score |-> summary_score,
                  initial |-> Zero, terms |-> << >>, gold |-> Zero, TotalLoss |-> Zero]

GetLoss ==
    /\ l_call.op = "call"
    /\ get_loss(l_call.margin, l_call.score, l_call.summary_score)

----------------------------------------------------------------------------
(* MatchRougeMetric: the exact ROUGE evaluator. *)

\* the most calls of time() in a run
MaxClock == 6

TestExample1 == [text |-> <<sA, sB, sEmpty>>, summary |-> <<sA, sB>>,
                 indices |-> << <<1, 0>>, <<2>> >>]
TestExample2 == [text |-> <<sB, sA>>, summary |-> <<sAB>>,
                 indices |-> << <<0, 1>> >>]

TestData == <<TestExample1, TestExample2>>

\* n_total, as given to the constructor
n_total == Len(TestData)

MatchRows == {PeakRow(c) : c \in {0, 1, 2}}

\* what the ROUGE-1.5.5 run can come to: the conversion fails, the process
\* ends with a non-zero status, its output is not the expected report, or
\* the report holds the three F-scores
ScorerOutcomes ==
    {[kind |-> "convert_error", R |-> None], [kind |-> "scorer_error", R |-> None],
     [kind |-> "malformed_output", R |-> None],
     [kind |-> "report", R |-> <<Frac(1, 2), Zero, Frac(1, 2)>>],
     [kind |-> "report", R |-> <<One, One, One>>]}

\* a directory with file name written with the lines given
WriteFile(dir, name, lines) ==
    [f \in (DOMAIN dir) \cup {name} |-> IF f = name THEN lines ELSE dir[f]]

\* MatchRougeMetric.evaluate(score), at time t
m_evaluate(score, t) ==
    IF Len(score) # 1
    THEN \* line 148: int() of a tensor of several indices
         /\ m_call' = [op |-> "evaluate", raised |-> "ValueError", reset |-> None,
                       score |-> score, io |-> << >>, result |-> None]
         /\ UNCHANGED <<m_data, ext, m_cur_idx, start, dec_path, ref_path,
                        rouge_txt, tmp_dir>>
    ELSE /\ ext' = Append(ext, ArgMax(score[1]))
         /\ m_cur_idx' = m_cur_idx + 1
         /\ m_call' = [op |-> "evaluate", raised |-> None, reset |-> None,
                       score |-> score, io |-> << >>, result |-> None]
         /\ UNCHANGED <<m_data, start, dec_path, ref_path, rouge_txt, tmp_dir>>

\* WriteExample with the scorer run for every example as it is written
WriteExampleAndScore(fs, i) ==
    IF i >= Len(m_data) \/ At(ext, i) >= Len(At(m_data, i).indices)
    THEN [fs EXCEPT !.raised = "IndexError"]
    ELSE LET sent_ids == At(At(m_data, i).indices, At(ext, i))
             dec == [k \in 1..Len(sent_ids) |-> At(At(m_data, i).text, sent_ids[k])]
             ref == At(m_data, i).summary
         IN  [fs EXCEPT !.dec = WriteFile(@, i, dec),
                        !.ref = WriteFile(@, i, ref),
                        !.io = @ \o << <<"write", "dec", i>>, <<"write", "ref", i>>,
                                       <<"run", "ROUGE-1.5.5.pl", 0>> >>]

\* lines 159-172 for recorded example i: fs holds the two directories and
\* the file operations so far
WriteExample(fs, i) ==
    IF i >= Len(m_data) \/ At(ext, i) >= Len(At(m_data, i).indices)
    THEN [fs EXCEPT !.raised = "IndexError"]
    ELSE LET sent_ids == At(At(m_data, i).indices, At(ext, i))
             dec == [k \in 1..Len(sent_ids) |-> At(At(m_data, i).text, sent_ids[k])]
             ref == At(m_data, i).summary
         IN  [fs EXCEPT !.dec = WriteFile(@, i, dec),
                        !.ref = WriteFile(@, i, ref),
                        !.io = @ \o << <<"write", "dec", i>>, <<"write", "ref", i>> >>]

\* the loop of lines 158-172 from recorded example i on; it ends at the
\* first exception
RECURSIVE WriteFiles(_, _)
WriteFiles(fs, i) ==
    IF i >= Len(ext) \/ fs.raised # None THEN fs
    ELSE WriteFiles(WriteExample(fs, i), i + 1)

\* the body of the with statement of lines 193-210
EvalRougeBody(fs, outcome) ==
    LET made == [fs EXCEPT !.tmp = {"tmp"}, !.io = Append(@, <<"mkdtemp", "tmp", 0>>)]
        conv == [made EXCEPT !.tmp = @ \cup {"tmp/dec", "tmp/ref"},
                             !.io = @ \o << <<"convert", "dec", 0>>, <<"convert", "ref", 0>> >>]
        conf == [conv EXCEPT !.tmp = @ \cup {"tmp/settings.xml"},
                             !.io = Append(@, <<"write", "settings.xml", 0>>)]
        ran  == [conf EXCEPT !.io = Append(@, <<"run", "ROUGE-1.5.5.pl", 0>>)]
    IN  IF outcome.kind = "convert_error"
        THEN [made EXCEPT !.tmp = @ \cup {"tmp/dec"}, !.io = Append(@, <<"convert", "dec", 0>>),
                          !.raised = "Exception"]
        ELSE IF outcome.kind = "scorer_error"
        THEN [ran EXCEPT !.raised = "CalledProcessError"]
        ELSE IF outcome.kind = "malformed_output"
        THEN [ran EXCEPT !.raised = "IndexError"]
        ELSE [ran EXCEPT !.R = outcome.R]

\* TemporaryDirectoryExit as a clean-up at the end of the block only: an
\* exception skips it
TemporaryDirectoryExitAtEnd(fs) ==
    IF fs.raised # None THEN fs
    ELSE [fs EXCEPT !.tmp = {}, !.io = Append(@, <<"rmtree", "tmp", 0>>)]

\* leaving the with tempfile.TemporaryDirectory() of line 192, normally or
\* by an exception: the directory and what it holds are removed
TemporaryDirectoryExit(fs) ==
    [fs EXCEPT !.tmp = {}, !.io = Append(@, <<"rmtree", "tmp", 0>>)]

\* MatchRougeMetric.eval_rouge(dec_dir, ref_dir), Print=True
eval_rouge(fs, outcome) ==
    LET left == TemporaryDirectoryExit(EvalRougeBody(fs, outcome))
    IN  IF left.raised # None THEN left
        ELSE [left EXCEPT !.rouge_txt = outcome.R,
                          !.io = Append(@, <<"write", "ROUGE.txt", 0>>)]

\* m_reset without line 180: the recorded list is kept
m_resetKeepExt(t) ==
    /\ m_cur_idx' = 0
    /\ ext' = ext
    /\ m_data' = << >>
    /\ start' = t

\* lines 178-182
m_reset(t) ==
    /\ m_cur_idx' = 0
    /\ ext' = << >>
    /\ m_data' = << >>
    /\ start' = t

\* MatchRougeMetric.get_metric(reset), at time t
m_get_metric(reset, outcome, t) ==
    LET fs0 == [dec |-> dec_path, ref |-> ref_path, tmp |-> tmp_dir,
                rouge_txt |-> rouge_txt, io |-> << >>, raised |-> None, R |-> None]
        written == WriteFiles(fs0, 0)
        fs == IF written.raised # None THEN written ELSE eval_rouge(written, outcome)
    IN  /\ dec_path' = fs.dec
        /\ ref_path' = fs.ref
        /\ tmp_dir' = fs.tmp
        /\ rouge_txt' = fs.rouge_txt
        /\ IF fs.raised # None
           THEN /\ m_call' = [op |-> "get_metric", raised |-> fs.raised, reset |-> reset,
                              score |-> None, io |-> fs.io, result |-> None]
                /\ UNCHANGED <<m_data, ext, m_cur_idx, start>>
           ELSE /\ m_call' = [op |-> "get_metric", raised |-> None, reset |-> reset,
                              score |-> None, io |-> fs.io, result |-> fs.R]
                /\ IF reset THEN m_reset(t)
                   ELSE UNCHANGED <<m_data, ext, m_cur_idx, start>>

\* MatchRougeMetric.__init__
MatchInit ==
    /\ m_data = TestData
    /\ ext = << >>
    /\ m_cur_idx = 0
    /\ now = 0
    /\ start = 0
    /\ dec_path = << >>
    /\ ref_path = << >>
    /\ rouge_txt = None
    /\ tmp_dir = {}
    /\ m_call = [op |-> "__init__", raised |-> None, reset |-> None,
                 score |-> None, io |-> << >>, result |-> None]

\* a call of evaluate: the caller gives one score matrix per example of the
\* pass, n_total of them
MatchEvaluate ==
    /\ now < MaxClock
    /\ m_cur_idx < n_total
    /\ now' = now + 1
    /\ \E b \in 1..2 : \E score \in [1..b -> MatchRows] : m_evaluate(score, now')

MatchGetMetric ==
    /\ now < MaxClock
    /\ now' = now + 1
    /\ \E reset \in BOOLEAN : \E outcome \in ScorerOutcomes :
           m_get_metric(reset, outcome, now')

----------------------------------------------------------------------------
(* The specifications. *)

Init == StartInit /\ LossInit /\ ValidInit /\ MatchInit

StartNext == ImportModule /\ UNCHANGED <<lossVars, validVars, matchVars>>

SpecStartup == Init /\ [][StartNext]_vars

\* The module as loaded; one environment is enough for the components.
\* SpecStartup shows that lines 22-26 as written never reach this state
\* (os is not bound); the three classes are studied from here on, as they
\* behave once their definitions of lines 29-215 have been executed.
Loaded ==
    /\ environ = [name \in EnvNames |-> IF name = "ROUGE_PATH" THEN "/opt/ROUGE-1.5.5" ELSE Unset]
    /\ module_state = "loaded"
    /\ stdout = << >>
    /\ exit_code = None

LossSpecInit == Loaded /\ LossInputs /\ ValidInit /\ MatchInit

LossNext == GetLoss /\ UNCHANGED <<startVars, validVars, matchVars>>

SpecLoss == LossSpecInit /\ [][LossNext]_vars

LoadedInit == Loaded /\ LossInit /\ ValidInit /\ MatchInit

ValidNext ==
    \/ Evaluate /\ UNCHANGED <<startVars, lossVars, matchVars>>
    \/ GetMetric /\ UNCHANGED <<startVars, lossVars, matchVars>>

SpecValid == LoadedInit /\ [][ValidNext]_vars

MatchNext ==
    \/ MatchEvaluate /\ UNCHANGED <<startVars, lossVars, validVars>>
    \/ MatchGetMetric /\ UNCHANGED <<startVars, lossVars, validVars>>

SpecMatch == LoadedInit /\ [][MatchNext]_vars

----------------------------------------------------------------------------
(* The claims about ValidMetric (FastValidationScorer), under SpecValid. *)

\* the step is a call of ValidMetric.evaluate that returned
EvaluateReturned == v_call'.op = "evaluate" /\ v_call'.raised = None

\* the step is a call of ValidMetric.get_metric that returned its report
GetMetricReturned == v_call'.op = "get_metric" /\ v_call'.raised = None

\* the rows of the batch of the step that select a padded column of their
\* example, row k (from 1) having the example at (cursor before the call) + k - 1
PaddedRows ==
    {k \in 1..Len(v_call'.score) :
        ArgMax(v_call'.score[k]) >= Len(At(data, cur_idx + k - 1).indices)}

\* the turns recorded by the step lead from the accumulators before the call
\* to the accumulators after it
RowsChain ==
    \A rows \in {v_call'.rows} :
        /\ Len(rows) = Len(v_call'.score)
        /\ rows[1].Error_before = Error /\ rows[1].ROUGE_before = ROUGE
        /\ rows[Len(rows)].Error_after = Error' /\ rows[Len(rows)].ROUGE_after = ROUGE'
        /\ \A k \in 1..(Len(rows) - 1) :
               /\ rows[k + 1].Error_before = rows[k].Error_after
               /\ rows[k + 1].ROUGE_before = rows[k].ROUGE_after

\* C1: in every call of evaluate, a row whose arg-max is not below the number
\* of index-sets of the example at the cursor raises Error by exactly 1 and
\* leaves the ROUGE accumulator as it was; a row whose arg-max is in range
\* leaves Error as it was. So Error grows by the number of padded rows.
C1_ErrorPerPaddedRow ==
    [][EvaluateReturned =>
         /\ RowsChain
         /\ \A padded \in {PaddedRows} :
                /\ \A k \in 1..Len(v_call'.rows) :
                       \A r \in {v_call'.rows[k]} :
                           IF k \in padded
                           THEN /\ r.Error_after = r.Error_before + 1
                                /\ r.ROUGE_after = r.ROUGE_before
                           ELSE r.Error_after = r.Error_before
                /\ Error' = Error + Cardinality(padded)
      ]_vars

\* a batch of two rows was observed, the first padded, the second in range
C1_Witness ==
    /\ v_call.op = "evaluate"
    /\ Len(v_call.rows) = 2
    /\ v_call.rows[1].max_idx >= Len(At(data, v_call.rows[1].idx).indices)
    /\ v_call.rows[1].Error_after = v_call.rows[1].Error_before + 1
    /\ v_call.rows[2].max_idx < Len(At(data, v_call.rows[2].idx).indices)
    /\ v_call.rows[2].ROUGE_after # v_call.rows[2].ROUGE_before

\* C2: a call of evaluate with b rows moves the cursor by exactly b, whatever
\* branch each row takes, and row k (from 0) is paired with the example at
\* position (cursor before the call) + k.
C2_CursorPerRow ==
    [][EvaluateReturned =>
         /\ cur_idx' = cur_idx + Len(v_call'.score)
         /\ Len(v_call'.rows) = Len(v_call'.score)
         /\ \A k \in 1..Len(v_call'.rows) :
                \A r \in {v_call'.rows[k]} :
                    /\ r.idx = cur_idx + (k - 1)
                    /\ r.cur_after = cur_idx + k
                    /\ r.max_idx = ArgMax(v_call'.score[k])
      ]_vars

\* a batch of two rows was observed from a cursor that was not 0, the first
\* row padded (the error branch), the second in range
C2_Witness ==
    /\ v_call.op = "evaluate"
    /\ Len(v_call.rows) = 2
    /\ v_call.rows[1].idx = 1 /\ v_call.rows[2].idx = 2 /\ cur_idx = 3
    /\ v_call.rows[1].Error_after = v_call.rows[1].Error_before + 1
    /\ v_call.rows[2].Error_after = v_call.rows[2].Error_before

\* the number of rows observed since the last reset whose arg-max is <= limit
SeenLeq(limit) == Cardinality({k \in 1..Len(v_seen) : v_seen[k] <= limit})

\* C3: the report of get_metric gives as top1_accuracy, top6_accuracy and
\* top10_accuracy the fractions of the rows observed since the last reset
\* whose arg-max is 0, at most 5 and at most 9; all three are 1 when every
\* observed arg-max is 0.
C3_AccuraciesAreFractions ==
    [][GetMetricReturned =>
         LET n == Len(v_seen)
             report == v_call'.result
         IN  /\ n >= 1
             /\ report.top1_accuracy = Frac(Cardinality({k \in 1..n : v_seen[k] = 0}), n)
             /\ report.top6_accuracy = Frac(SeenLeq(5), n)
             /\ report.top10_accuracy = Frac(SeenLeq(9), n)
             /\ (\A k \in 1..n : v_seen[k] = 0) =>
                    /\ report.top1_accuracy = One
                    /\ report.top6_accuracy = One
                    /\ report.top10_accuracy = One
      ]_vars

\* a report over rows with arg-max 5 and arg-max 9 among others: the three
\* accuracies differ
C3_Witness ==
    /\ v_call.op = "get_metric" /\ v_call.raised = None
    /\ v_call.result.top1_accuracy = Frac(1, 3)
    /\ v_call.result.top6_accuracy = Frac(2, 3)
    /\ v_call.result.top10_accuracy = One

\* the last call was a get_metric(reset=True) that returned its report
AfterReset ==
    v_call.op = "get_metric" /\ v_call.raised = None /\ v_call.reset = TRUE

\* C4: get_metric(reset=True) leaves top-1, top-6, top-10, Error, the
\* cumulative ROUGE and the cursor at zero, and a get_metric that follows it
\* with no evaluate between, like a get_metric before any evaluate, raises
\* the division by zero.
C4_ResetThenEmptyReduceRaises ==
    [][/\ (GetMetricReturned /\ v_call'.reset = TRUE) =>
              /\ top1_correct' = 0 /\ top6_correct' = 0 /\ top10_correct' = 0
              /\ Error' = 0 /\ ROUGE' = Zero /\ cur_idx' = 0
       /\ ((AfterReset \/ v_call.op = "__init__") /\ v_call'.op = "get_metric") =>
              v_call'.raised = "ZeroDivisionError"
      ]_vars

\* a get_metric raised the division by zero after an earlier get_metric had
\* written its line and reset the counters
C4_Witness ==
    /\ v_call.op = "get_metric" /\ v_call.raised = "ZeroDivisionError"
    /\ train_info >= 1
    /\ cur_idx = 0

\* C5: no call changes an example: text, summary and indices, the order of
\* the elements of every index-set included, stay as they were loaded.
C5_ExamplesImmutable == data = ValidData

\* the step is a call of get_metric(reset=True) that returned its report
ResetReturned == GetMetricReturned /\ v_call'.reset = TRUE

\* C13: under evaluate none of top-1, top-6, top-10, Error, the cumulative
\* ROUGE and the cursor decreases; a counter or the cursor goes to zero only
\* in a get_metric(reset=True), and then all six are zero together;
\* get_metric(reset=False) leaves all six as they were; the report of every
\* get_metric is computed from the values held before the reset.
C13_AccumulatorProtocol ==
    [][/\ v_call'.op = "evaluate" =>
              /\ top1_correct' >= top1_correct /\ top6_correct' >= top6_correct
              /\ top10_correct' >= top10_correct /\ Error' >= Error
              /\ FracLeq(ROUGE, ROUGE') /\ cur_idx' >= cur_idx
       /\ (\/ top1_correct' < top1_correct \/ top6_correct' < top6_correct
           \/ top10_correct' < top10_correct \/ Error' < Error
           \/ ~FracLeq(ROUGE, ROUGE') \/ cur_idx' < cur_idx) => ResetReturned
       /\ ResetReturned =>
              /\ top1_correct' = 0 /\ top6_correct' = 0 /\ top10_correct' = 0
              /\ Error' = 0 /\ ROUGE' = Zero /\ cur_idx' = 0
       /\ (v_call'.op = "get_metric" /\ ~ResetReturned) =>
              UNCHANGED <<top1_correct, top6_correct, top10_correct, Error, ROUGE, cur_idx>>
       /\ GetMetricReturned =>
              v_call'.result = [top1_accuracy  |-> Frac(top1_correct, cur_idx),
                               top6_accuracy  |-> Frac(top6_correct, cur_idx),
                               top10_accuracy |-> Frac(top10_correct, cur_idx),
                               Error |-> Error,
                               ROUGE |-> Frac(ROUGE[1], ROUGE[2] * cur_idx)]
      ]_vars

\* a get_metric(reset=True) reported an Error count and a ROUGE that were not
\* zero, and left the counters at zero
C13_Witness ==
    /\ v_call.op = "get_metric" /\ v_call.raised = None /\ v_call.reset = TRUE
    /\ v_call.result.Error >= 1 /\ v_call.result.ROUGE # Zero
    /\ v_call.result.top10_accuracy # Zero
    /\ Error = 0 /\ ROUGE = Zero /\ top10_correct = 0 /\ cur_idx = 0

\* the text decoded for index-set e of an example: its sentences in
\* ascending order of their numbers, joined by a space
DecodedText(example, e) ==
    LET ext_idx == SortAsc(At(example.indices, e))
    IN  Join([k \in 1..Len(ext_idx) |-> At(example.text, ext_idx[k])], <<" ">>)

\* row r selects an index-set of its example (in range) and the decoded text
\* or the reference text is the empty string
EmptyTextRow(r) ==
    \E example \in {At(data, r.idx)} :
        /\ r.max_idx < Len(example.indices)
        /\ \/ DecodedText(example, r.max_idx) = << >>
           \/ Join(example.summary, <<" ">>) = << >>

\* C14: in evaluate, a row whose arg-max is in range and whose decoded text
\* or reference text is empty adds exactly 0 to the cumulative ROUGE, does
\* not count an Error, and moves the cursor by 1.
C14_EmptyTextScoresZero ==
    [][EvaluateReturned =>
         \A k \in 1..Len(v_call'.rows) : \A r \in {v_call'.rows[k]} :
             EmptyTextRow(r) =>
                 /\ r.ROUGE_after = r.ROUGE_before
                 /\ r.Error_after = r.Error_before
                 /\ r.cur_after = r.idx + 1
      ]_vars

\* a batch of two rows after a ROUGE was accumulated: the first selects the
\* empty index-set of the second example, the second an index-set of the
\* third example, whose gold summary is empty
C14_Witness ==
    /\ v_call.op = "evaluate" /\ Len(v_call.rows) = 2
    /\ v_call.rows[1].idx = 1 /\ v_call.rows[1].max_idx = 1
    /\ v_call.rows[2].idx = 2 /\ v_call.rows[2].max_idx = 0
    /\ v_call.rows[1].ROUGE_before # Zero
    /\ v_call.rows[2].ROUGE_after = v_call.rows[1].ROUGE_before
    /\ Error = 0 /\ cur_idx = 3

\* C16: after every call, 0 <= top1_correct <= top6_correct <= top10_correct
\* <= cursor and 0 <= Error <= cursor; the accuracies of every report lie in
\* [0, 1] and top1_accuracy <= top6_accuracy <= top10_accuracy.
C16_CountersOrdered ==
    /\ 0 <= top1_correct /\ top1_correct <= top6_correct
    /\ top6_correct <= top10_correct /\ top10_correct <= cur_idx
    /\ 0 <= Error /\ Error <= cur_idx
    /\ (v_call.op = "get_metric" /\ v_call.raised = None) =>
           /\ FracLeq(Zero, v_call.result.top1_accuracy)
           /\ FracLeq(v_call.result.top1_accuracy, v_call.result.top6_accuracy)
           /\ FracLeq(v_call.result.top6_accuracy, v_call.result.top10_accuracy)
           /\ FracLeq(v_call.result.top10_accuracy, One)

\* three rows were observed with the four counts all different from their
\* neighbours but top-6 and top-10, one row being padded
C16_Witness ==
    /\ top1_correct = 1 /\ top6_correct = 2 /\ top10_correct = 2
    /\ cur_idx = 3 /\ Error = 1

\* C18: a get_metric that raises the division by zero appends no line to
\* train_info.txt and leaves every counter, the cursor and the examples as
\* they were; every other get_metric returns and appends exactly one line.
C18_FailedReduceNoEffect ==
    [][v_call'.op = "get_metric" =>
         IF v_call'.raised = "ZeroDivisionError"
         THEN /\ cur_idx = 0
              /\ UNCHANGED <<train_info, top1_correct, top6_correct, top10_correct,
                             Error, ROUGE, cur_idx, data>>
         ELSE /\ v_call'.raised = None
              /\ train_info' = train_info + 1
      ]_vars

\* a get_metric(reset=False) raised the division by zero when the log held
\* the one line of an earlier get_metric
C18_Witness ==
    /\ v_call.op = "get_metric" /\ v_call.raised = "ZeroDivisionError"
    /\ v_call.reset = FALSE
    /\ train_info = 1

----------------------------------------------------------------------------
(* The claims about MatchRougeMetric (ExactRougeEvaluator), under SpecMatch. *)

\* the positions of io that hold the event e
Positions(io, e) == {p \in 1..Len(io) : io[p] = e}

\* the files a call wrote into the decoded and the reference directory
WrittenFiles(io) ==
    {<<io[p][2], io[p][3]>> : p \in {q \in 1..Len(io) : io[q][1] = "write" /\ io[q][2] \in {"dec", "ref"}}}

RunScorer == <<"run", "ROUGE-1.5.5.pl", 0>>

\* the lines of the decoded file of example i for the recorded arg-max e:
\* the sentences of the index-set e of the example, in the index-set's order
DecodedLines(i, e) ==
    LET sent_ids == At(At(TestData, i).indices, e)
    IN  [k \in 1..Len(sent_ids) |-> At(At(TestData, i).text, sent_ids[k])]

\* C6: get_metric, after n evaluate calls since the last reset, writes
\* exactly one decoded file i.dec and one reference file i.ref for each i in
\* 0..n-1 and no others; i.dec holds the sentences selected by the i-th
\* recorded arg-max, one per line in the order of the index-set, and i.ref
\* the gold summary sentences of example i in their order.
C6_OneFilePairPerExample ==
    [][m_call'.op = "get_metric" =>
         LET n == Len(ext)
             io == m_call'.io
         IN  /\ WrittenFiles(io) = {"dec", "ref"} \X (0..(n - 1))
             /\ \A i \in 0..(n - 1) :
                    /\ Cardinality(Positions(io, <<"write", "dec", i>>)) = 1
                    /\ Cardinality(Positions(io, <<"write", "ref", i>>)) = 1
                    /\ dec_path'[i] = DecodedLines(i, At(ext, i))
                    /\ ref_path'[i] = At(TestData, i).summary
      ]_vars

\* C7 as stated: evaluate writes no file and runs no scorer; every get_metric
\* call runs the scorer exactly once, after the decoded and the reference
\* file of every recorded example were written.
C7_ScorerOncePerReduce ==
    [][/\ m_call'.op = "evaluate" =>
              /\ m_call'.io = << >>
              /\ UNCHANGED <<dec_path, ref_path, rouge_txt, tmp_dir>>
       /\ m_call'.op = "get_metric" =>
              /\ Cardinality(Positions(m_call'.io, RunScorer)) = 1
              /\ \A p \in Positions(m_call'.io, RunScorer) : \A i \in 0..(Len(ext) - 1) :
                     /\ \E q \in 1..(p - 1) : m_call'.io[q] = <<"write", "dec", i>>
                     /\ \E q \in 1..(p - 1) : m_call'.io[q] = <<"write", "ref", i>>
      ]_vars

\* C7, amended: evaluate writes no file and runs no scorer; a get_metric call
\* runs the scorer at most once, and only after the decoded and the reference
\* file of every recorded example were written; a get_metric call that
\* returns its report has run it exactly once.
C7_ScorerAtMostOnceAfterFiles ==
    [][/\ m_call'.op = "evaluate" =>
              /\ m_call'.io = << >>
              /\ UNCHANGED <<dec_path, ref_path, rouge_txt, tmp_dir>>
       /\ m_call'.op = "get_metric" =>
              /\ Cardinality(Positions(m_call'.io, RunScorer)) <= 1
              /\ m_call'.raised = None => Cardinality(Positions(m_call'.io, RunScorer)) = 1
              /\ \A p \in Positions(m_call'.io, RunScorer) : \A i \in 0..(Len(ext) - 1) :
                     /\ \E q \in 1..(p - 1) : m_call'.io[q] = <<"write", "dec", i>>
                     /\ \E q \in 1..(p - 1) : m_call'.io[q] = <<"write", "ref", i>>
      ]_vars

\* a get_metric returned its report after writing the files of two examples
\* and running the scorer
C7_Witness ==
    /\ m_call.op = "get_metric" /\ m_call.raised = None
    /\ Positions(m_call.io, <<"write", "dec", 1>>) # {}
    /\ Positions(m_call.io, <<"write", "ref", 1>>) # {}
    /\ Positions(m_call.io, RunScorer) # {}

\* the events of io that create something in the temporary directory
TmpCreations(io) ==
    {p \in 1..Len(io) : io[p] \in {<<"mkdtemp", "tmp", 0>>, <<"convert", "dec", 0>>,
                                   <<"convert", "ref", 0>>, <<"write", "settings.xml", 0>>}}

\* C8: the temporary directory with the converted directories and the
\* settings file exists only within a get_metric call: whenever a call made
\* it, the call removed it after the last thing it put there, whether it
\* returned or the conversion, the scorer or the parsing failed; no
\* temporary file exists after any call.
C8_TempFilesRemoved ==
    /\ tmp_dir = {}
    /\ m_call.op = "evaluate" => TmpCreations(m_call.io) = {}
    /\ (m_call.op = "get_metric" /\ TmpCreations(m_call.io) # {}) =>
           \E r \in Positions(m_call.io, <<"rmtree", "tmp", 0>>) :
               \A p \in TmpCreations(m_call.io) : p < r

\* a get_metric call failed in the scorer subprocess after the temporary
\* directory was filled
C8_Witness ==
    /\ m_call.op = "get_metric" /\ m_call.raised = "CalledProcessError"
    /\ Positions(m_call.io, <<"write", "settings.xml", 0>>) # {}
    /\ Positions(m_call.io, <<"rmtree", "tmp", 0>>) # {}
    /\ tmp_dir = {}

\* the recorded arg-maxes that are out of range of their example: entry i
\* (from 0) is not below the number of index-sets of example i
PaddedEntries ==
    {i \in 0..(Len(ext) - 1) :
        i < Len(m_data) /\ At(ext, i) >= Len(At(m_data, i).indices)}

\* C11: a recorded arg-max that is out of range of its example's index-sets
\* never aborts get_metric: with the examples as they were loaded, a
\* get_metric over a list holding such an entry still writes the files of
\* every example whose entry is in range and goes on to the scorer (it never
\* raises out of the loop that writes the files).
C11_PaddedNeverAborts ==
    [][(m_call'.op = "get_metric" /\ m_data = TestData /\ PaddedEntries # {}) =>
         /\ Positions(m_call'.io, <<"mkdtemp", "tmp", 0>>) # {}
         /\ \A i \in (0..(Len(ext) - 1)) \ PaddedEntries :
                Positions(m_call'.io, <<"write", "dec", i>>) # {}
      ]_vars

\* C12: get_metric(reset=True), when it returns, clears the recorded arg-max
\* list and the counter and restarts the timer, and leaves the examples as
\* they were; no call changes the examples.
C12_ResetKeepsExamples ==
    [][/\ m_data' = m_data
       /\ (m_call'.op = "get_metric" /\ m_call'.raised = None /\ m_call'.reset = TRUE) =>
              /\ ext' = << >> /\ m_cur_idx' = 0 /\ start' = now'
      ]_vars

\* the numbers of the decoded files a call wrote, in the order of writing
RECURSIVE DecWrites(_)
DecWrites(io) ==
    IF io = << >> THEN << >>
    ELSE IF Head(io)[1] = "write" /\ Head(io)[2] = "dec"
         THEN <<Head(io)[3]>> \o DecWrites(Tail(io))
         ELSE DecWrites(Tail(io))

\* C17: in every state the recorded arg-max list is as long as the counter
\* says; an evaluate that returns appends the arg-max of its score at the
\* end and nothing else changes the list but the reset of a get_metric,
\* which empties it; get_metric takes the entries in order from 0 and writes
\* for entry i the file i from example i and index-set ext[i] and from no
\* other example.
C17_PairingByCallOrder ==
    /\ [](Len(ext) = m_cur_idx)
    /\ [][(m_call'.op = "evaluate" =>
               ext' = (IF m_call'.raised = None
                       THEN Append(ext, ArgMax(m_call'.score[1])) ELSE ext))
          /\
          (m_call'.op = "get_metric" =>
               /\ ext' = (IF m_call'.raised = None /\ m_call'.reset = TRUE
                          THEN << >> ELSE ext)
               /\ \A written \in {DecWrites(m_call'.io)} :
                      /\ Len(written) <= Len(ext)
                      /\ \A k \in 1..Len(written) :
                             /\ written[k] = k - 1
                             /\ k - 1 < Len(m_data)
                             /\ At(ext, k - 1) < Len(At(m_data, k - 1).indices)
                             /\ dec_path'[k - 1] =
                                    [j \in 1..Len(At(At(m_data, k - 1).indices, At(ext, k - 1))) |->
                                        At(At(m_data, k - 1).text,
                                           At(At(m_data, k - 1).indices, At(ext, k - 1))[j])]
                             /\ ref_path'[k - 1] = At(m_data, k - 1).summary)
         ]_vars

\* a get_metric(reset=False) returned after two evaluate calls with the
\* arg-maxes 1 and 0: file 0 holds index-set 1 of example 0, file 1
\* index-set 0 of example 1
C17_Witness ==
    /\ m_call.op = "get_metric" /\ m_call.raised = None
    /\ ext = <<1, 0>> /\ m_cur_idx = 2
    /\ DecWrites(m_call.io) = <<0, 1>>
    /\ dec_path[0] = <<sEmpty>>
    /\ dec_path[1] = <<sB, sA>>

----------------------------------------------------------------------------
(* The claim about MarginRankingLoss (RankingLossComputer), under SpecLoss. *)

\* in every row, every candidate beats the candidate i ranks later by at
\* least margin * i
MarginSatisfied(score, margin, i) ==
    \A b \in 1..Len(score) : \A j \in 1..(Len(score[b]) - i) :
        score[b][j] - score[b][j + i] >= margin * i

\* some row scores a later-ranked candidate strictly higher than an earlier one
OrderViolated(score) ==
    \E b \in 1..Len(score) : \E j, k \in 1..Len(score[b]) :
        j < k /\ score[b][k] > score[b][j]

\* C9: with a base margin >= 0 the loss is never negative, the term of rank
\* distance i is 0 when the margin of that distance is satisfied in every row
\* and column, and the loss is strictly positive when some row scores a
\* later-ranked candidate above an earlier-ranked one.
C9_LossSign ==
    (l_call.op = "get_loss" /\ l_call.margin >= 0) =>
        /\ l_call.TotalLoss[1] >= 0 /\ l_call.TotalLoss[2] > 0
        /\ Len(l_call.terms) = Len(l_call.score[1]) - 1
        /\ \A i \in 1..Len(l_call.terms) :
               MarginSatisfied(l_call.score, l_call.margin, i) => l_call.terms[i] = Zero
        /\ OrderViolated(l_call.score) => l_call.TotalLoss[1] > 0

\* a loss over two rows of three candidates with margin 1, every distance's
\* margin satisfied
C9_Witness ==
    /\ l_call.op = "get_loss" /\ l_call.margin = 1
    /\ Len(l_call.score) = 2 /\ Len(l_call.score[1]) = 3
    /\ l_call.terms = <<Zero, Zero>>
    /\ l_call.TotalLoss[1] > 0

\* C15: the loss of a score against itself with margin 0, which starts the
\* total, is exactly 0 for every number of candidates; with one candidate
\* there is no term of a rank distance and the loss is the gold term alone,
\* which is 0 exactly when in every row the gold summary's score is >= the
\* candidate's score, and positive otherwise.
C15_SingleCandidateLoss ==
    l_call.op = "get_loss" =>
        /\ l_call.initial = Zero
        /\ Len(l_call.score[1]) = 1 =>
               /\ l_call.terms = << >>
               /\ l_call.TotalLoss = l_call.gold
               /\ IF \A b \in 1..Len(l_call.score) :
                         l_call.summary_score[b] >= l_call.score[b][1]
                  THEN l_call.TotalLoss = Zero
                  ELSE l_call.TotalLoss[1] > 0 /\ l_call.TotalLoss[2] > 0

\* a loss over two rows of one candidate, the gold summary scoring below the
\* candidate in one of them
C15_Witness ==
    /\ l_call.op = "get_loss" /\ l_call.margin = 1
    /\ Len(l_call.score) = 2 /\ Len(l_call.score[1]) = 1
    /\ l_call.terms = << >>
    /\ l_call.TotalLoss = Frac(1, 2)

----------------------------------------------------------------------------
(* The claim about the start-up, under SpecStartup. *)

\* C10: when ROUGE_PATH is not in the environment the import prints the
\* diagnostic message and exits; when it is there the import completes and
\* the components can be constructed.
C10_StartupByRougePath ==
    module_state # "importing" =>
        IF environ["ROUGE_PATH"] = Unset
        THEN /\ module_state = "SystemExit"
             /\ stdout = <<"Please set the environment variable ROUGE_PATH">>
             /\ exit_code = 1
        ELSE module_state = "loaded"

=============================================================================
